---- MODULE Spec2Model ----
(***************************************************************************)
(* The two training scripts of the repository as state machines:           *)
(*   LQR/1dim_PPO.py  - the PPO agent and its __main__ training loop       *)
(*   LQR/1dim_SAC.py  - the energy-based agent and its training loop       *)
(* Each script is a sequential program; pc / sac_pc is its position.       *)
(*                                                                         *)
(* Abstractions.  The environment is the script's one-dimensional system   *)
(* x' = A x + B u with A = B = Q = R = 1, over the integers.  A network's  *)
(* weights are the number of optimizer steps that changed them.  A tensor  *)
(* of the autograd graph is the set of parameter groups its grad_fn chain  *)
(* reaches: backward() leaves a gradient on exactly those groups and       *)
(* Adam.step() skips the parameters that have none.                        *)
(***************************************************************************)
EXTENDS Integers, Sequences, FiniteSets

(***************************************************************************)
(* Hyperparameters of 1dim_PPO.py, scaled down; the source value is named.  *)
(***************************************************************************)
\* 1dim_PPO.py:247  max_episodes = 10000
max_episodes == 3
\* 1dim_PPO.py:248  max_timesteps = 100
max_timesteps == 3
\* 1dim_PPO.py:253  update_timestep = 400
update_timestep == 4
\* 1dim_PPO.py:246  log_interval = 500
log_interval == 2
\* 1dim_PPO.py:255  K_epochs = 10
K_epochs == 2

\* 1dim_PPO.py:296  np.abs(state) > 10
StateLimit == 10

\* 1dim_PPO.py:286  state = np.random.uniform(-5,5,(1,1))
InitStates == {-5, 5}

\* 1dim_PPO.py:127  action = dist.sample(): a normal sample, any real
Actions == {-6, 0, 6}

\* weights of a freshly constructed network (no optimizer step yet)
InitWeights == 0

(***************************************************************************)
(* Hyperparameters of 1dim_SAC.py, scaled down; the source value is named.  *)
(***************************************************************************)
\* 1dim_SAC.py:207  max_episodes = 100000
sac_max_episodes == 3
\* 1dim_SAC.py:208  max_timesteps = 10
sac_max_timesteps == 3
\* 1dim_SAC.py:206  log_interval = 100
sac_log_interval == 2
\* 1dim_SAC.py:214  K_epochs = 10
sac_K_epochs == 2

\* 1dim_SAC.py:237  state = 10*np.random.randn(1,1)
sac_InitStates == {-10, 0, 10}

\* 1dim_SAC.py:130  action = torch.exp(...): a positive real
sac_Actions == {1, 2}

VARIABLES
    \* ---- 1dim_PPO.py ----
    pc,             \* position in the __main__ script
    i_episode,      \* outer loop variable
    t,              \* inner loop variable
    time_step,      \* steps since the last update
    state,          \* environment state
    action,         \* last selected action
    reward,         \* last reward
    done,           \* the episode's done flag
    memory,         \* Memory object: five lists
    policy,         \* ppo.policy      : [actor, critic] weights
    policy_old,     \* ppo.policy_old  : [actor, critic] weights
    avg_length,     \* logging accumulator
    running_reward, \* logging accumulator
    printed,        \* last 'Avg length' printed, as <<sum, divisor>>
    \* history variables: written, never read by the program
    ep_steps,       \* environment steps executed in the current episode
    exceed_step,    \* step of this episode that produced |state| > 10, 0 if none
    win_steps,      \* environment steps executed since the last log line
    since_update,   \* environment steps executed since the last update
    total_steps,    \* environment steps executed since the start
    n_updates,      \* calls of update_actor
    episodes_run,   \* episodes completed
    \* ---- 1dim_SAC.py ----
    sac_pc,           \* position in the script
    sac_i_episode,    \* outer loop variable
    sac_t,            \* inner loop variable
    sac_state,        \* environment state
    sac_action,       \* last selected action
    sac_cost,         \* last cost
    sac_done,         \* the episode's done flag
    sac_memory,       \* Memory object: five lists
    sac_policy,       \* sac.policy.agent weights
    sac_policy_old,   \* sac.policy_old.agent weights
    sac_running_cost, \* logging accumulator
    \* history variables
    sac_ep_states,    \* states the current episode acted on, in order
    sac_n_updates     \* calls of sac.update

loop == <<i_episode, t>>
env == <<state, action, reward, done>>
agent == <<policy, policy_old>>
logs == <<avg_length, running_reward, printed>>
ppo_vars == <<pc, loop, time_step, env, memory, agent, logs,
              ep_steps, exceed_step, win_steps, since_update, total_steps,
              n_updates, episodes_run>>

sac_loop == <<sac_i_episode, sac_t>>
sac_env == <<sac_state, sac_action, sac_cost, sac_done>>
sac_agent == <<sac_policy, sac_policy_old>>
sac_vars == <<sac_pc, sac_loop, sac_env, sac_memory, sac_agent,
              sac_running_cost, sac_ep_states, sac_n_updates>>

vars == <<ppo_vars, sac_vars>>

Abs(x) == IF x < 0 THEN -x ELSE x

(***************************************************************************)
(* Memory                                                                  *)
(***************************************************************************)
EmptyMemory ==
    [actions |-> <<>>, states |-> <<>>, logprobs |-> <<>>,
     rewards |-> <<>>, is_terminals |-> <<>>]

clear_memory(m) ==
    [actions |-> <<>>, states |-> <<>>, logprobs |-> <<>>,
     rewards |-> <<>>, is_terminals |-> <<>>]

(***************************************************************************)
(* Autograd: a tensor is the set of parameter groups its graph reaches.    *)
(***************************************************************************)
\* net(x): the output depends on the input's graph and on net's parameters
Forward(net, x) == x \cup {net}

\* dist.log_prob(x) of a distribution built on `mean`: keeps mean's graph
LogProb(mean) == mean

\* a tensor built from python numbers or numpy data: no graph
Constant == {}

\* x.detach()
Detach(x) == {}

\* torch.tensor(data, requires_grad=True): copies the data into a new leaf
\* tensor, whatever graph the data came from
NewLeaf(data) == {}

\* an elementwise operation on two tensors
Op(x, y) == x \cup y

\* ActorCritic.evaluate: the graph of the returned action_logprobs
evaluate_logprobs(old_states) ==
    LET action_means == Forward("actor", old_states)
    IN  NewLeaf(LogProb(action_means))

\* ActorCritic.evaluate: the graph of the returned state_value
evaluate_state_value(old_states) == Forward("critic", old_states)

\* PPO.update_actor: the graph of actor_loss in one epoch
actor_loss ==
    LET rewards       == Constant
        old_states    == Detach(Constant)
        old_logprobs  == Detach(Forward("actor", Constant))
        logprobs      == evaluate_logprobs(old_states)
        state_values  == evaluate_state_value(old_states)
        ratios        == Op(logprobs, old_logprobs)
        advantages    == Op(rewards, Detach(state_values))
        surr1         == Op(ratios, advantages)
        surr2         == Op(Constant, advantages)
    IN  Op(surr1, surr2)

\* PPO.update_critic: the graph of critic_loss in one epoch
critic_loss ==
    LET states        == Detach(Constant)
        rewards       == Constant
        state_values  == Forward("critic", states)
    IN  Op(state_values, rewards)

\* optimizer.zero_grad(); loss.mean().backward(); optimizer.step() on the
\* parameter group `net` with weights w
GradientStep(net, w, loss) == IF net \in loss THEN w + 1 ELSE w

RECURSIVE Epochs(_, _, _, _)
\* for _ in range(k): one gradient step on `net` per epoch
Epochs(k, net, w, loss) ==
    IF k = 0 THEN w ELSE Epochs(k - 1, net, GradientStep(net, w, loss), loss)

\* PPO.update_actor: policy after the K epochs
update_actor(p) ==
    [p EXCEPT !.actor = Epochs(K_epochs, "actor", p.actor, actor_loss)]

\* PPO.update_critic: policy after the K epochs
update_critic(p) ==
    [p EXCEPT !.critic = Epochs(K_epochs, "critic", p.critic, critic_loss)]

\* mutant: the update comes one step early
UpdateDue_one_early(ts) == (ts + 1) % update_timestep = 0

\* time_step % update_timestep == 0
UpdateDue(ts) == ts % update_timestep = 0

(***************************************************************************)
(* __main__ of 1dim_PPO.py                                                 *)
(***************************************************************************)
InitPPO ==
    /\ pc = "episode"
    /\ i_episode = 0
    /\ t = 0
    /\ time_step = 0
    /\ state = 0
    /\ action = 0
    /\ reward = 0
    /\ done = FALSE
    /\ memory = EmptyMemory
    /\ policy = [actor |-> InitWeights, critic |-> InitWeights]
    /\ policy_old = [actor |-> InitWeights, critic |-> InitWeights]
    /\ avg_length = 0
    /\ running_reward = 0
    /\ printed = <<>>
    /\ ep_steps = 0
    /\ exceed_step = 0
    /\ win_steps = 0
    /\ since_update = 0
    /\ total_steps = 0
    /\ n_updates = 0
    /\ episodes_run = 0

\* for i_episode in range(1, max_episodes+1): state = ...; done = False;
\* the inner loop is entered with t = 0
EpisodeStart ==
    /\ pc = "episode"
    /\ i_episode < max_episodes
    /\ i_episode' = i_episode + 1
    /\ \E x \in InitStates : state' = x
    /\ done' = FALSE
    /\ t' = 0
    /\ pc' = "select"
    /\ ep_steps' = 0
    /\ exceed_step' = 0
    /\ UNCHANGED <<time_step, action, reward, memory, agent, logs, win_steps,
                   since_update, total_steps, n_updates, episodes_run>>
    /\ UNCHANGED sac_vars

\* the outer loop is exhausted
LoopExit ==
    /\ pc = "episode"
    /\ i_episode >= max_episodes
    /\ pc' = "finished"
    /\ UNCHANGED <<loop, time_step, env, memory, agent, logs, ep_steps,
                   exceed_step, win_steps, since_update, total_steps,
                   n_updates, episodes_run>>
    /\ UNCHANGED sac_vars

\* time_step += 1; action = ppo.select_action(state, memory)
SelectAction ==
    /\ pc = "select"
    /\ time_step' = time_step + 1
    /\ \E a \in Actions :
        /\ action' = a
        /\ memory' = [memory EXCEPT
                        !.states   = Append(@, state),
                        !.actions  = Append(@, a),
                        !.logprobs = Append(@, policy_old.actor)]
    /\ pc' = "env"
    /\ UNCHANGED <<loop, state, reward, done, agent, logs, ep_steps,
                   exceed_step, win_steps, since_update, total_steps,
                   n_updates, episodes_run>>
    /\ UNCHANGED sac_vars

\* reward, next state, done flag; memory.rewards / is_terminals appended
EnvStep ==
    /\ pc = "env"
    /\ LET r  == state * state + action * action
           s2 == state + action
           d2 == IF Abs(s2) > StateLimit THEN TRUE ELSE done
       IN  /\ reward' = r
           /\ state' = s2
           /\ done' = d2
           /\ memory' = [memory EXCEPT
                           !.rewards      = Append(@, r),
                           !.is_terminals = Append(@, d2)]
           /\ exceed_step' = IF Abs(s2) > StateLimit /\ exceed_step = 0
                             THEN ep_steps + 1 ELSE exceed_step
    /\ ep_steps' = ep_steps + 1
    /\ win_steps' = win_steps + 1
    /\ since_update' = since_update + 1
    /\ total_steps' = total_steps + 1
    /\ pc' = "check"
    /\ UNCHANGED <<loop, time_step, action, agent, logs, n_updates,
                   episodes_run>>
    /\ UNCHANGED sac_vars

\* if time_step % update_timestep == 0: ppo.update_actor(memory)
UpdateActor ==
    /\ pc = "check"
    /\ UpdateDue(time_step)
    /\ policy' = update_actor(policy)
    /\ policy_old' = policy'
    /\ n_updates' = n_updates + 1
    /\ pc' = "update_critic"
    /\ UNCHANGED <<loop, time_step, env, memory, logs, ep_steps, exceed_step,
                   win_steps, since_update, total_steps, episodes_run>>
    /\ UNCHANGED sac_vars

\* the update is not due
SkipUpdate ==
    /\ pc = "check"
    /\ ~UpdateDue(time_step)
    /\ pc' = "accumulate"
    /\ UNCHANGED <<loop, time_step, env, memory, agent, logs, ep_steps,
                   exceed_step, win_steps, since_update, total_steps,
                   n_updates, episodes_run>>
    /\ UNCHANGED sac_vars

\* ppo.update_critic(memory)
UpdateCritic ==
    /\ pc = "update_critic"
    /\ policy' = update_critic(policy)
    /\ pc' = "clear"
    /\ UNCHANGED <<loop, time_step, env, memory, policy_old, logs, ep_steps,
                   exceed_step, win_steps, since_update, total_steps,
                   n_updates, episodes_run>>
    /\ UNCHANGED sac_vars

\* memory.clear_memory(); time_step = 0
ClearMemory ==
    /\ pc = "clear"
    /\ memory' = clear_memory(memory)
    /\ time_step' = 0
    /\ since_update' = 0
    /\ pc' = "accumulate"
    /\ UNCHANGED <<loop, env, agent, logs, ep_steps, exceed_step, win_steps,
                   total_steps, n_updates, episodes_run>>
    /\ UNCHANGED sac_vars

\* mutant: the `if done: break` is missing
LoopContinues_no_break(d, tt) == tt + 1 < max_timesteps

\* whether the inner loop runs another iteration after iteration tt:
\* no `break` on done, and range(max_timesteps) is not exhausted
LoopContinues(d, tt) == ~d /\ tt + 1 < max_timesteps

\* running_reward += reward.item(); if done: break; else the next iteration
StepEnd ==
    /\ pc = "accumulate"
    /\ running_reward' = running_reward + reward
    /\ IF LoopContinues(done, t)
       THEN /\ pc' = "select"
            /\ t' = t + 1
       ELSE /\ pc' = "episode_end"
            /\ t' = t
    /\ UNCHANGED <<i_episode, time_step, env, memory, agent, avg_length,
                   printed, ep_steps, exceed_step, win_steps, since_update,
                   total_steps, n_updates, episodes_run>>
    /\ UNCHANGED sac_vars

\* avg_length += t
EpisodeEnd ==
    /\ pc = "episode_end"
    /\ avg_length' = avg_length + t
    /\ episodes_run' = episodes_run + 1
    /\ pc' = "logging"
    /\ UNCHANGED <<loop, time_step, env, memory, agent, running_reward,
                   printed, ep_steps, exceed_step, win_steps, since_update,
                   total_steps, n_updates>>
    /\ UNCHANGED sac_vars

\* if i_episode % log_interval == 0: print avg_length/log_interval; reset
Logging ==
    /\ pc = "logging"
    /\ i_episode % log_interval = 0
    /\ printed' = <<avg_length, log_interval>>
    /\ running_reward' = 0
    /\ avg_length' = 0
    /\ win_steps' = 0
    /\ pc' = "episode"
    /\ UNCHANGED <<loop, time_step, env, memory, agent, ep_steps, exceed_step,
                   since_update, total_steps, n_updates, episodes_run>>
    /\ UNCHANGED sac_vars

\* no log line for this episode
NoLogging ==
    /\ pc = "logging"
    /\ i_episode % log_interval # 0
    /\ pc' = "episode"
    /\ UNCHANGED <<loop, time_step, env, memory, agent, logs, ep_steps,
                   exceed_step, win_steps, since_update, total_steps,
                   n_updates, episodes_run>>
    /\ UNCHANGED sac_vars

NextPPO ==
    \/ EpisodeStart
    \/ LoopExit
    \/ SelectAction
    \/ EnvStep
    \/ UpdateActor
    \/ SkipUpdate
    \/ UpdateCritic
    \/ ClearMemory
    \/ StepEnd
    \/ EpisodeEnd
    \/ Logging
    \/ NoLogging

(***************************************************************************)
(* 1dim_SAC.py                                                             *)
(***************************************************************************)
sac_EmptyMemory ==
    [actions |-> <<>>, states |-> <<>>, logprobs |-> <<>>,
     costs |-> <<>>, is_terminals |-> <<>>]

\* mutant: `del self.states[:]` is missing
sac_clear_memory_keeps_states(m) ==
    [actions |-> <<>>, states |-> m.states, logprobs |-> <<>>,
     costs |-> <<>>, is_terminals |-> <<>>]

sac_clear_memory(m) ==
    [actions |-> <<>>, states |-> <<>>, logprobs |-> <<>>,
     costs |-> <<>>, is_terminals |-> <<>>]

\* SAC.update: the graph of loss in one epoch
sac_loss ==
    LET costs         == Constant
        old_states    == Detach(Constant)
        old_actions   == Detach(Forward("agent", Constant))
        action_values == Forward("agent", Op(old_states, old_actions))
        actor_loss_   == Op(Constant, old_actions)
        critic_loss_  == Op(action_values, costs)
    IN  Op(actor_loss_, critic_loss_)

\* SAC.update: the agent's weights after the K epochs
sac_update(w) == Epochs(sac_K_epochs, "agent", w, sac_loss)

InitSAC ==
    /\ sac_pc = "episode"
    /\ sac_i_episode = 0
    /\ sac_t = 0
    /\ sac_state = 0
    /\ sac_action = 0
    /\ sac_cost = 0
    /\ sac_done = FALSE
    /\ sac_memory = sac_EmptyMemory
    /\ sac_policy = InitWeights
    /\ sac_policy_old = InitWeights
    /\ sac_running_cost = 0
    /\ sac_ep_states = <<>>
    /\ sac_n_updates = 0

\* for i_episode in range(1, max_episodes+1): state = ...; done = False;
\* the inner loop is entered with t = 0
sac_EpisodeStart ==
    /\ sac_pc = "episode"
    /\ sac_i_episode < sac_max_episodes
    /\ sac_i_episode' = sac_i_episode + 1
    /\ \E x \in sac_InitStates : sac_state' = x
    /\ sac_done' = FALSE
    /\ sac_t' = 0
    /\ sac_pc' = "select"
    /\ sac_ep_states' = <<>>
    /\ UNCHANGED <<sac_action, sac_cost, sac_memory, sac_agent,
                   sac_running_cost, sac_n_updates>>
    /\ UNCHANGED ppo_vars

\* the outer loop is exhausted
sac_LoopExit ==
    /\ sac_pc = "episode"
    /\ sac_i_episode >= sac_max_episodes
    /\ sac_pc' = "finished"
    /\ UNCHANGED <<sac_loop, sac_env, sac_memory, sac_agent, sac_running_cost,
                   sac_ep_states, sac_n_updates>>
    /\ UNCHANGED ppo_vars

\* action = sac.select_action(state, memory): Model.act appends the state
\* and the action, and no logprob
sac_SelectAction ==
    /\ sac_pc = "select"
    /\ \E a \in sac_Actions :
        /\ sac_action' = a
        /\ sac_memory' = [sac_memory EXCEPT
                            !.states  = Append(@, sac_state),
                            !.actions = Append(@, a)]
    /\ sac_ep_states' = Append(sac_ep_states, sac_state)
    /\ sac_pc' = "env"
    /\ UNCHANGED <<sac_loop, sac_state, sac_cost, sac_done, sac_agent,
                   sac_running_cost, sac_n_updates>>
    /\ UNCHANGED ppo_vars

\* cost, next state; memory.costs / is_terminals appended; done is not assigned
sac_EnvStep ==
    /\ sac_pc = "env"
    /\ sac_cost' = sac_state * sac_state + sac_action * sac_action
    /\ sac_state' = sac_state + sac_action
    /\ sac_memory' = [sac_memory EXCEPT
                        !.costs        = Append(@, sac_cost'),
                        !.is_terminals = Append(@, sac_done)]
    /\ sac_pc' = "step_end"
    /\ UNCHANGED <<sac_loop, sac_action, sac_done, sac_agent,
                   sac_running_cost, sac_ep_states, sac_n_updates>>
    /\ UNCHANGED ppo_vars

\* whether the inner loop runs another iteration after iteration tt
sac_LoopContinues(d, tt) == ~d /\ tt + 1 < sac_max_timesteps

\* if done: break; else the next iteration of range(max_timesteps)
sac_StepEnd ==
    /\ sac_pc = "step_end"
    /\ IF sac_LoopContinues(sac_done, sac_t)
       THEN /\ sac_pc' = "select"
            /\ sac_t' = sac_t + 1
       ELSE /\ sac_pc' = "update"
            /\ sac_t' = sac_t
    /\ UNCHANGED <<sac_i_episode, sac_env, sac_memory, sac_agent,
                   sac_running_cost, sac_ep_states, sac_n_updates>>
    /\ UNCHANGED ppo_vars

\* sac.update(memory)
sac_Update ==
    /\ sac_pc = "update"
    /\ sac_policy' = sac_update(sac_policy)
    /\ sac_policy_old' = sac_policy'
    /\ sac_n_updates' = sac_n_updates + 1
    /\ sac_pc' = "clear"
    /\ UNCHANGED <<sac_loop, sac_env, sac_memory, sac_running_cost,
                   sac_ep_states>>
    /\ UNCHANGED ppo_vars

\* memory.clear_memory(); running_cost += cost.item()
sac_ClearMemory ==
    /\ sac_pc = "clear"
    /\ sac_memory' = sac_clear_memory(sac_memory)
    /\ sac_running_cost' = sac_running_cost + sac_cost
    /\ sac_pc' = "logging"
    /\ UNCHANGED <<sac_loop, sac_env, sac_agent, sac_ep_states, sac_n_updates>>
    /\ UNCHANGED ppo_vars

\* if i_episode % log_interval == 0: print; running_cost = 0
sac_Logging ==
    /\ sac_pc = "logging"
    /\ sac_i_episode % sac_log_interval = 0
    /\ sac_running_cost' = 0
    /\ sac_pc' = "episode"
    /\ UNCHANGED <<sac_loop, sac_env, sac_memory, sac_agent, sac_ep_states,
                   sac_n_updates>>
    /\ UNCHANGED ppo_vars

\* no log line for this episode
sac_NoLogging ==
    /\ sac_pc = "logging"
    /\ sac_i_episode % sac_log_interval # 0
    /\ sac_pc' = "episode"
    /\ UNCHANGED <<sac_loop, sac_env, sac_memory, sac_agent, sac_running_cost,
                   sac_ep_states, sac_n_updates>>
    /\ UNCHANGED ppo_vars

NextSAC ==
    \/ sac_EpisodeStart
    \/ sac_LoopExit
    \/ sac_SelectAction
    \/ sac_EnvStep
    \/ sac_StepEnd
    \/ sac_Update
    \/ sac_ClearMemory
    \/ sac_Logging
    \/ sac_NoLogging

(***************************************************************************)
(* Specifications: each script is run on its own.                          *)
(***************************************************************************)
Init == InitPPO /\ InitSAC

SpecPPO == Init /\ [][NextPPO]_vars

SpecSAC == Init /\ [][NextSAC]_vars

\* a sequential script always executes its next statement
FairSpecPPO == Init /\ [][NextPPO]_vars /\ WF_vars(NextPPO)

(***************************************************************************)
(* Properties                                                              *)
(***************************************************************************)
\* every list of the PPO memory holds n entries
MemoryHolds(n) ==
    /\ Len(memory.states) = n
    /\ Len(memory.actions) = n
    /\ Len(memory.logprobs) = n
    /\ Len(memory.rewards) = n
    /\ Len(memory.is_terminals) = n

\* C1 (as claimed): training changes the PPO actor -- once update_actor has
\* run, the policy used for acting (policy_old.actor) is no longer the
\* initial one.
C1_ActorTrained == n_updates > 0 => policy_old.actor # InitWeights

\* C2: the PPO policy is updated every update_timestep environment steps,
\* whatever the episode boundaries.  While update_actor, update_critic and
\* clear_memory run, exactly update_timestep steps have been taken since the
\* previous update and every memory list holds exactly update_timestep
\* entries; at every other position fewer than update_timestep steps have
\* been taken since the last update (so none was skipped and none came
\* early), the steps taken are n_updates * update_timestep plus the steps
\* since the last update, and when the next action is selected the memory
\* holds only the transitions taken since that update.
C2_UpdateEveryUpdateTimestep ==
    /\ pc \in {"update_critic", "clear"} =>
          /\ since_update = update_timestep
          /\ MemoryHolds(update_timestep)
          /\ total_steps = n_updates * update_timestep
          /\ policy_old.actor = policy.actor
    /\ pc = "check" => since_update \in 1..update_timestep
    /\ pc \notin {"update_critic", "clear", "check"} =>
          /\ since_update < update_timestep
          /\ total_steps = n_updates * update_timestep + since_update
    /\ pc = "select" => MemoryHolds(since_update)

\* C2 witness: the second update, running in the middle of an episode
C2_Witness ==
    /\ pc = "update_critic"
    /\ n_updates = 2
    /\ t = 1
    /\ ~done

\* C3: sac.update is called exactly once per episode, after the episode's
\* last step, on a memory holding all and only that episode's transitions:
\* every episode runs max_timesteps steps, done is never set and every
\* recorded is_terminal is False, the states, actions, costs and
\* is_terminals lists have max_timesteps entries at the update, logprobs is
\* always empty, and the memory is empty when an episode starts.
C3_UpdateOncePerEpisode ==
    /\ sac_done = FALSE
    /\ sac_memory.logprobs = <<>>
    /\ \A i \in DOMAIN sac_memory.is_terminals :
          sac_memory.is_terminals[i] = FALSE
    /\ sac_pc \in {"update", "clear"} =>
          /\ sac_t = sac_max_timesteps - 1
          /\ Len(sac_memory.states) = sac_max_timesteps
          /\ Len(sac_memory.actions) = sac_max_timesteps
          /\ Len(sac_memory.costs) = sac_max_timesteps
          /\ Len(sac_memory.is_terminals) = sac_max_timesteps
          /\ sac_memory.states = sac_ep_states
    /\ sac_pc = "update" => sac_n_updates = sac_i_episode - 1
    /\ sac_pc \in {"select", "env", "step_end"} =>
          sac_n_updates = sac_i_episode - 1
    /\ sac_pc \in {"clear", "logging", "episode", "finished"} =>
          sac_n_updates = sac_i_episode
    /\ sac_pc \in {"logging", "episode", "finished"} =>
          sac_memory = sac_EmptyMemory
    /\ sac_pc = "finished" => sac_n_updates = sac_max_episodes

\* C3 witness: the update of the second episode is about to run
C3_Witness ==
    /\ sac_pc = "update"
    /\ sac_i_episode = 2
    /\ sac_n_updates = 1
    /\ Len(sac_memory.states) = sac_max_timesteps

\* C4 (as claimed): an episode stops before max_timesteps exactly when a
\* step produces a state with |state| > 10.
C4_StopsEarlyIffExceeded ==
    pc = "episode_end" => (ep_steps < max_timesteps <=> exceed_step # 0)

\* the safety part of C4 as amended
C4_Episodes ==
    /\ (exceed_step # 0) <=> done
    /\ exceed_step # 0 => exceed_step = ep_steps
    /\ ep_steps <= max_timesteps
    /\ episodes_run <= max_episodes
    /\ pc = "episode_end" =>
          /\ ep_steps \in 1..max_timesteps
          /\ ep_steps = t + 1
          /\ ep_steps < max_timesteps <=> exceed_step \in 1..(max_timesteps - 1)
    /\ pc = "finished" => episodes_run = max_episodes

\* C4 (amended): the PPO training loop terminates after exactly max_episodes
\* episodes; every episode executes at least 1 and at most max_timesteps
\* steps; a step that produces |state| > 10 is the episode's last; and an
\* episode stops before max_timesteps exactly when one of its first
\* max_timesteps - 1 steps produces |state| > 10.
C4_Terminates == []C4_Episodes /\ <>(pc = "finished")

\* C4 witness: the loop has finished and its last episode stopped early
C4_Witness ==
    /\ pc = "finished"
    /\ episodes_run = max_episodes
    /\ done
    /\ ep_steps < max_timesteps

\* C5 (as claimed): when a log line is due, the avg_length accumulator
\* equals the number of environment steps taken in the last log_interval
\* episodes.
C5_AvgLengthIsSteps ==
    (pc = "logging" /\ i_episode % log_interval = 0) => avg_length = win_steps

====
